---------------------------- MODULE Spec2Model ----------------------------
(***************************************************************************)
(* rootpy: the pythonized() source cache (pythonize.py), the decorators    *)
(* requires_ROOT, method_file_check and method_file_cd (decorators.py)     *)
(* and Legend.AddEntry (plotting/legend.py); tree2hdf5, root2hdf5 and the  *)
(* command line of root2hdf5 (root2hdf5.py).                               *)
(*                                                                         *)
(* Python strings that the code inspects character by character (method   *)
(* names) are sequences of one-character strings; the interpreter is       *)
(* Python 2, the version the code is written for (imp, func_doc,           *)
(* im_class).                                                              *)
(***************************************************************************)
EXTENDS Integers, Sequences, FiniteSets, TLC

(***************************************************************************)
(* Bounds of the model.                                                    *)
(***************************************************************************)
NumProcs == 2
MaxCalls == 2
MaxLegendCalls == 2
MaxStackLen == 2
MaxEntries == 3
MaxChunk == 2
MaxFiles == 2

Procs == 1..NumProcs

(***************************************************************************)
(* State.                                                                  *)
(***************************************************************************)
VARIABLES
  pc,           \* pythonized: where each process stands in its call
  arg,          \* pythonized: the class passed in ("none" between calls)
  calls,        \* pythonized: calls made so far, by all processes
  foundAbsent,  \* pythonized: os.path.isfile(out_name) was false in this call
  outcome,      \* pythonized: how the call ended
  result,       \* pythonized: the class returned
  lockHolder,   \* the LockFile of each lock path: 0 or the process holding it
  file,         \* SOURCE_PATH/<name>.py for each class name
  generatedBy,  \* history: 0, -1 (file there before any call) or the process
                \* whose generation completed
  generatedFrom,\* history: the class whose source the file holds ("none")
  missCalls,    \* history: for each name whose file was never generated, the
                \* calls of the latest run of calls pending at the same time
  attempts,     \* history: generations begun for each name
  successes     \* history: generations completed for each name

pyVars ==
  << pc, arg, calls, foundAbsent, outcome, result, lockHolder, file,
     generatedBy, generatedFrom, missCalls, attempts, successes >>

VARIABLES
  rootVersion,  \* ROOT_VERSION
  curDir,       \* gDirectory(): "TROOT" or the current file
  fileMode,     \* each file: "closed", "rw" (writable) or "ro"
  objDir,       \* self.GetDirectory(): a file, or "none"
  dpc,          \* "idle", or "body" inside a method_file_cd method
  savedDir,     \* the directory preserve_current_directory restores
  bodyMoved,    \* the running body has changed directory itself
  dcall,        \* the last decorated call: decorator, inputs, gDirectory then
  dout          \* its outcome

decVars ==
  << rootVersion, curDir, fileMode, objDir, dpc, savedDir, bodyMoved, dcall, dout >>

VARIABLES
  legendEntries,  \* the TLegend's entries: (object, label, style)
  keptAlive,      \* keepalive(self, thing)
  legendCalls,    \* AddEntry calls made
  lastAdd         \* the last AddEntry call: its inputs and the entries before it

legVars == << legendEntries, keptAlive, legendCalls, lastAdd >>

(***************************************************************************)
(* State of root2hdf5.py: one call of tree2hdf5.                           *)
(***************************************************************************)
VARIABLES
  ttree,     \* tree2hdf5: the tree, [rows, hasObject]
  tsel,      \* tree2hdf5: the selection expression
  tentries,  \* tree2hdf5: the entries argument
  tpc,       \* tree2hdf5: position in the call
  tstart,    \* tree2hdf5: start
  tdset,     \* the dataset tree.GetName() of the group
  tout       \* tree2hdf5: how the call ended

treeVars == << ttree, tsel, tentries, tpc, tstart, tdset, tout >>

(***************************************************************************)
(* State of root2hdf5.py: one call of root2hdf5.                           *)
(***************************************************************************)
VARIABLES
  rfile,            \* the ROOT file: the tree names of each directory
  userfunc,         \* root2hdf5: the userfunc argument
  rentries,         \* root2hdf5: the entries argument
  ignore_exception, \* root2hdf5: the ignore_exception argument
  unreadable,       \* the names of the trees that cannot be read
  rpc,              \* root2hdf5: position in the call
  dirIdx,           \* root2hdf5: the directory the walk is at
  treenames,        \* root2hdf5: treenames, sorted
  treeIdx,          \* root2hdf5: position in treenames
  input_tree,       \* root2hdf5: input_tree
  trees,            \* root2hdf5: trees
  treePos,                \* root2hdf5: position in trees
  groups,           \* the HDF5 file: groups created
  datasets,         \* the HDF5 file: the dataset of each group and name
  userCalls,        \* history: the trees the user function was called on
  conversions,         \* history: the calls of tree2hdf5 and how each ended
  logged,           \* history: the trees log.error reported
  deleted           \* history: the trees Delete() has returned from

convVars ==
  << rfile, userfunc, rentries, ignore_exception, unreadable, rpc, dirIdx,
     treenames, treeIdx, input_tree, trees, treePos, groups, datasets, userCalls,
     conversions, logged, deleted >>

(***************************************************************************)
(* State of root2hdf5.py: one run of main, the command line.               *)
(***************************************************************************)
VARIABLES
  args_files,       \* main: args.files, the input names
  args_force,       \* main: args.force
  args_update,      \* main: args.update
  openable,         \* the inputs root_open can open
  creatable,        \* the outputs h5py.File can open
  present,          \* the file system: the output paths that exist
  holds,            \* the file system: what each output file holds
  mpc,              \* main: position in the run
  fileIdx,          \* main: position in args.files
  output_exists,    \* main: output_exists
  opened,           \* history: the calls of h5py.File that returned
  exitMsg           \* main: the argument of sys.exit

mainVars ==
  << args_files, args_force, args_update, openable, creatable, present,
     holds, mpc, fileIdx, output_exists, opened, exitMsg >>

h5Vars == << treeVars, convVars, mainVars >>

vars == << pyVars, decVars, legVars, h5Vars >>

(***************************************************************************)
(* Strings as character sequences.                                         *)
(***************************************************************************)
UpperChars ==
  << "A","B","C","D","E","F","G","H","I","J","K","L","M",
     "N","O","P","Q","R","S","T","U","V","W","X","Y","Z" >>

LowerChars ==
  << "a","b","c","d","e","f","g","h","i","j","k","l","m",
     "n","o","p","q","r","s","t","u","v","w","x","y","z" >>

DigitChars == { "0","1","2","3","4","5","6","7","8","9" }

IsUpperChar(c) == \E i \in 1..Len(UpperChars) : UpperChars[i] = c

IsLowerChar(c) == \E i \in 1..Len(LowerChars) : LowerChars[i] = c

ToLowerChar(c) ==
  IF IsUpperChar(c)
  THEN LowerChars[CHOOSE i \in 1..Len(UpperChars) : UpperChars[i] = c]
  ELSE c

ToUpperChar(c) ==
  IF IsLowerChar(c)
  THEN UpperChars[CHOOSE i \in 1..Len(LowerChars) : LowerChars[i] = c]
  ELSE c

\* str.lower()
StrLower(s) == [i \in 1..Len(s) |-> ToLowerChar(s[i])]

\* str.capitalize(): first character upper-cased, the rest lower-cased
StrCapitalize(s) ==
  [i \in 1..Len(s) |-> IF i = 1 THEN ToUpperChar(s[i]) ELSE ToLowerChar(s[i])]

\* str.islower(): at least one cased character and no upper-case one
StrIsLower(s) ==
  /\ \E i \in 1..Len(s) : IsLowerChar(s[i])
  /\ \A i \in 1..Len(s) : ~IsUpperChar(s[i])

\* rootpy.util.extras.camel_to_snake:
\*   s1 = re.sub('(.)([A-Z][a-z]+)', r'\1_\2', name)
\*   re.sub('([a-z0-9])([A-Z])', r'\1_\2', s1).lower()
\* an underscore goes before every upper-case letter that is not the first
\* character and is followed by a lower-case letter or preceded by a
\* lower-case letter or digit; then everything is lower-cased.
SnakeBreak(s, i) ==
  /\ i > 1
  /\ IsUpperChar(s[i])
  /\ \/ (i < Len(s) /\ IsLowerChar(s[i + 1]))
     \/ IsLowerChar(s[i - 1])
     \/ s[i - 1] \in DigitChars

RECURSIVE SnakeFrom(_, _)
SnakeFrom(s, i) ==
  IF i > Len(s) THEN << >>
  ELSE (IF SnakeBreak(s, i) THEN << "_" >> ELSE << >>)
       \o << ToLowerChar(s[i]) >> \o SnakeFrom(s, i + 1)

camel_to_snake(s) == SnakeFrom(s, 1)

(***************************************************************************)
(* pythonize.py: names                                                     *)
(***************************************************************************)
\* keyword.kwlist of Python 2.7, read by keyword.iskeyword
Keywords ==
  { <<"a","n","d">>,
    <<"a","s">>,
    <<"a","s","s","e","r","t">>,
    <<"b","r","e","a","k">>,
    <<"c","l","a","s","s">>,
    <<"c","o","n","t","i","n","u","e">>,
    <<"d","e","f">>,
    <<"d","e","l">>,
    <<"e","l","i","f">>,
    <<"e","l","s","e">>,
    <<"e","x","c","e","p","t">>,
    <<"e","x","e","c">>,
    <<"f","i","n","a","l","l","y">>,
    <<"f","o","r">>,
    <<"f","r","o","m">>,
    <<"g","l","o","b","a","l">>,
    <<"i","f">>,
    <<"i","m","p","o","r","t">>,
    <<"i","n">>,
    <<"i","s">>,
    <<"l","a","m","b","d","a">>,
    <<"n","o","t">>,
    <<"o","r">>,
    <<"p","a","s","s">>,
    <<"p","r","i","n","t">>,
    <<"r","a","i","s","e">>,
    <<"r","e","t","u","r","n">>,
    <<"t","r","y">>,
    <<"w","h","i","l","e">>,
    <<"w","i","t","h">>,
    <<"y","i","e","l","d">> }

N_flush == <<"f","l","u","s","h">>
N_Cd == <<"C","d">>
N_Cm == <<"C","m">>
N_Flush == <<"F","l","u","s","h">>
N_GetTitle == <<"G","e","t","T","i","t","l","e">>
N_LongMethodName == <<"L","o","n","g","M","e","t","h","o","d","N","a","m","e">>
N_M == <<"M">>
N_OtherMethod == <<"O","t","h","e","r","M","e","t","h","o","d">>
N_Print == <<"P","r","i","n","t">>
N_Prop == <<"P","r","o","p">>
N_SetTitle == <<"S","e","t","T","i","t","l","e">>
N_Sm == <<"S","m">>
N_SomeMethod == <<"S","o","m","e","M","e","t","h","o","d">>
N_Write == <<"W","r","i","t","e">>
N_cd == <<"c","d">>
N_some_method == <<"s","o","m","e","_","m","e","t","h","o","d">>
N_write == <<"w","r","i","t","e">>

\* check_name(cls, name)
check_name(name) ==
  IF name = N_flush THEN FALSE
  ELSE IF name \in Keywords THEN FALSE
  ELSE TRUE

(***************************************************************************)
(* Python classes.  A class attribute is (name, raw, doc): raw is the kind *)
(* of object stored in the class __dict__, doc the func_doc as             *)
(* CPPGrammar.parse_method reads it (none, or static flag and return type).*)
(***************************************************************************)
NoDoc == [parsed |-> FALSE, static |-> FALSE, ret |-> "none"]

CppDoc(static, ret) == [parsed |-> TRUE, static |-> static, ret |-> ret]

Attr(name, raw, owner, doc) ==
  [name |-> name, raw |-> raw, owner |-> owner, doc |-> doc]

\* The classes handed to pythonized: QROOT.TDirectory (with the kinds of
\* entry of test_snake_case_methods_descriptor and a Set/Get pair), a user
\* class that is also called TDirectory, and the class B(A) of
\* test_pythonize.test_snake_case_methods, which QROOT does not know.
ClassIds == { "QTDirectory", "UserTDirectory", "TestB" }

ClassName(c) ==
  CASE c = "QTDirectory" -> "TDirectory"
    [] c = "UserTDirectory" -> "TDirectory"
    [] c = "TestB" -> "B"

ClassNames == { ClassName(c) : c \in ClassIds }

\* QROOT.<name>: the wrapped library's class of that name, if it has one
QROOTHas(name) == name = "TDirectory"

QROOTGet(name) == "QTDirectory"

\* dir(cls) with the entry found first along the MRO, sorted by name as
\* inspect.getmembers returns it (upper case sorts before lower case)
ClassAttrs(c) ==
  CASE c = "QTDirectory" ->
         << Attr(N_Cd, "function", "TDirectory", NoDoc),
            Attr(N_Cm, "classmethod", "TDirectory", NoDoc),
            Attr(N_GetTitle, "function", "TNamed", CppDoc(FALSE, "value")),
            Attr(N_M, "function", "TDirectory", NoDoc),
            Attr(N_Prop, "property", "TDirectory", NoDoc),
            Attr(N_SetTitle, "function", "TNamed", CppDoc(FALSE, "void")),
            Attr(N_Sm, "staticmethod", "TDirectory", NoDoc),
            Attr(N_Write, "function", "TObject", NoDoc),
            Attr(N_cd, "function", "TDirectory", NoDoc),
            Attr(N_write, "function", "TDirectory", NoDoc) >>
    [] c = "UserTDirectory" ->
         << Attr(N_Flush, "function", "TDirectory", NoDoc),
            Attr(N_Print, "function", "TDirectory", NoDoc),
            Attr(N_SomeMethod, "function", "TDirectory", NoDoc),
            Attr(N_Write, "function", "TDirectory", NoDoc) >>
    [] c = "TestB" ->
         << Attr(N_Cd, "function", "A", NoDoc),
            Attr(N_LongMethodName, "function", "A", NoDoc),
            Attr(N_OtherMethod, "function", "A", NoDoc),
            Attr(N_SomeMethod, "function", "A", NoDoc),
            Attr(N_Write, "function", "A", NoDoc),
            Attr(N_cd, "function", "A", NoDoc),
            Attr(N_some_method, "function", "A", NoDoc),
            Attr(N_write, "function", "B", NoDoc) >>

\* type(getattr(cls, name)) for an entry of kind raw in a class __dict__
\* (Python 2): a function comes back as an unbound method, a classmethod as
\* a bound method, a staticmethod as the bare function, a property as
\* itself, a method object as itself.
GetAttrKind(raw) ==
  CASE raw = "function" -> "instancemethod"
    [] raw = "classmethod" -> "instancemethod"
    [] raw = "instancemethod" -> "instancemethod"
    [] raw = "staticmethod" -> "function"
    [] raw = "property" -> "property"
    [] raw = "ROOTDescriptor" -> "getter_result"
    [] raw = "ROOTStaticDescriptor" -> "getter_result"

\* inspect.ismethod(getattr(cls, name))
IsAnyMember(a) == TRUE

IsMethod(a) == GetAttrKind(a.raw) = "instancemethod"

\* inspect.getmembers(cls, predicate=inspect.ismethod)
GetMembers(c) == SelectSeq(ClassAttrs(c), IsMethod)

HasAttrName(c, name) ==
  \E i \in 1..Len(ClassAttrs(c)) : ClassAttrs(c)[i].name = name

AttrOf(c, name) ==
  ClassAttrs(c)[CHOOSE i \in 1..Len(ClassAttrs(c)) : ClassAttrs(c)[i].name = name]

(***************************************************************************)
(* pythonize.py: SnakeMethods.get_snake_names                              *)
(***************************************************************************)
\* NO_ROOTPY_SNAKE_CASE is not set in the environment
CONVERT_SNAKE_CASE == TRUE

\* list.index
IndexIn(seq, x) == CHOOSE k \in 1..Len(seq) : seq[k] = x /\ \A j \in 1..(k - 1) : seq[j] # x

\* the loop that fills duplicate_idx: position i and the position
\* seen.index(n) of the name in the list of names seen so far
RECURSIVE DuplicateIdx(_, _, _, _)
DuplicateIdx(names, i, seen, dups) ==
  IF i > Len(names) THEN dups
  ELSE IF \E k \in 1..Len(seen) : seen[k] = names[i]
       THEN DuplicateIdx(names, i + 1, seen, dups \cup {i, IndexIn(seen, names[i])})
       ELSE DuplicateIdx(names, i + 1, Append(seen, names[i]), dups)

\* the second loop: (name, snake_name) of every method that is kept
RECURSIVE SnakeNamesFrom(_, _, _)
SnakeNamesFrom(methods, dups, i) ==
  IF i > Len(methods) THEN << >>
  ELSE LET name == methods[i].name
           snake_name == camel_to_snake(name)
           skip == \/ i \in dups
                   \/ name[1] = "_"
                   \/ StrIsLower(name)
                   \/ ~check_name(snake_name)
       IN (IF skip THEN << >>
           ELSE << [name |-> name, snake_name |-> snake_name] >>)
          \o SnakeNamesFrom(methods, dups, i + 1)

get_snake_names(methods) ==
  IF ~CONVERT_SNAKE_CASE THEN << >>
  ELSE LET names == [i \in 1..Len(methods) |-> StrCapitalize(methods[i].name)]
       IN SnakeNamesFrom(methods, DuplicateIdx(names, 1, << >>, {}), 1)

\* An Attribute of the generated class: name = value, the value being
\* `Base.a` (an alias) or `ROOT[Static]Descriptor(Base.a, Base.b)`.
Attribute(name, form, base, a, b) ==
  [name |-> name, form |-> form, base |-> base, a |-> a, b |-> b]

\* SnakeMethods.snake_methods: one alias per (name, snake_name)
snake_methods(c) ==
  LET names == get_snake_names(GetMembers(c))
  IN [i \in 1..Len(names) |->
        Attribute(names[i].snake_name, "alias", ClassName(c), names[i].name, << >>)]

\* SnakeMethods.__call__: the value set under each snake_name is the entry
\* of the first __dict__ along the MRO that holds the name, not getattr's
\* result
snake_call(c) ==
  LET names == get_snake_names(GetMembers(c))
  IN [i \in 1..Len(names) |->
        [name |-> names[i].snake_name, raw |-> AttrOf(c, names[i].name).raw]]

(***************************************************************************)
(* pythonize.py: descriptors                                               *)
(***************************************************************************)
\* DESCRIPTOR_PATTERN: ([sS]|[gG])et followed by at least one character
MatchesDescriptor(name, first) ==
  /\ Len(name) >= 4
  /\ ToUpperChar(name[1]) = first
  /\ name[2] = "e"
  /\ name[3] = "t"

PropOf(name) == SubSeq(name, 4, Len(name))

IsSetter(m) ==
  MatchesDescriptor(m.name, "S") /\ m.doc.parsed /\ m.doc.ret = "void"

IsGetter(m) ==
  MatchesDescriptor(m.name, "G") /\ m.doc.parsed /\ m.doc.ret # "void"

\* setters[prop] / getters[prop]: the last method stored under the key
LastSetter(methods, prop) ==
  CHOOSE i \in 1..Len(methods) :
    /\ IsSetter(methods[i]) /\ PropOf(methods[i].name) = prop
    /\ \A j \in (i + 1)..Len(methods) :
         ~(IsSetter(methods[j]) /\ PropOf(methods[j].name) = prop)

LastGetter(methods, prop) ==
  CHOOSE i \in 1..Len(methods) :
    /\ IsGetter(methods[i]) /\ PropOf(methods[i].name) = prop
    /\ \A j \in (i + 1)..Len(methods) :
         ~(IsGetter(methods[j]) /\ PropOf(methods[j].name) = prop)

HasGetter(methods, prop) ==
  \E i \in 1..Len(methods) : IsGetter(methods[i]) /\ PropOf(methods[i].name) = prop

\* the loop over setters, in the order of the methods list
RECURSIVE DescriptorsFrom(_, _, _)
DescriptorsFrom(c, methods, i) ==
  IF i > Len(methods) THEN << >>
  ELSE LET m == methods[i]
           prop == PropOf(m.name)
           isKey == IsSetter(m) /\ LastSetter(methods, prop) = i
           hasGetter == HasGetter(methods, prop)
           getter == methods[LastGetter(methods, prop)]
           snake_name == camel_to_snake(prop)
           keep == /\ isKey
                   /\ hasGetter
                   /\ m.doc.static = getter.doc.static
                   /\ check_name(snake_name)
       IN (IF keep
           THEN << Attribute(snake_name,
                             IF m.doc.static THEN "ROOTStaticDescriptor"
                             ELSE "ROOTDescriptor",
                             ClassName(c), m.name, getter.name) >>
           ELSE << >>)
          \o DescriptorsFrom(c, methods, i + 1)

descriptors(c) == DescriptorsFrom(c, GetMembers(c), 1)

(***************************************************************************)
(* pythonize.py: the generated source file and its import                  *)
(***************************************************************************)
\* '{0}_pythonized'.format(cls_name)
SubclassName(name) == << name, "_pythonized" >>

Absent == [state |-> "absent", base |-> "", name |-> << >>, attrs |-> << >>]

\* open(out_name, 'w') before anything is written
Truncated == [state |-> "empty", base |-> "", name |-> << >>, attrs |-> << >>]

\* str(Class(subcls_name, cls_name)) after descriptors and snake_methods
\* have appended their attributes
ClassSource(c) ==
  [state |-> "source",
   base |-> ClassName(c),
   name |-> SubclassName(ClassName(c)),
   attrs |-> descriptors(c) \o snake_methods(c)]

NoClass == [name |-> << >>, base |-> "", dict |-> << >>]

\* The names the class body reads from the base class
AttrReads(a) == IF a.form = "alias" THEN {a.a} ELSE {a.a, a.b}

\* imp.load_source(out_name) followed by getattr(modhandle, subcls_name).
\* The template binds the base to QROOT.<base> and evaluates every
\* attribute value against it: `Base.a` is an attribute access.
LoadError(src) ==
  IF src.state # "source" \/ src.attrs = << >> THEN "SyntaxError"
  ELSE IF ~QROOTHas(src.base) THEN "AttributeError"
  ELSE IF \E i \in 1..Len(src.attrs) : \E n \in AttrReads(src.attrs[i]) :
            ~HasAttrName(QROOTGet(src.base), n)
       THEN "AttributeError"
  ELSE "none"

LoadedClass(src) ==
  [name |-> src.name,
   base |-> QROOTGet(src.base),
   dict |-> [i \in 1..Len(src.attrs) |->
               [name |-> src.attrs[i].name,
                form |-> src.attrs[i].form,
                target |-> src.attrs[i].a,
                raw |-> IF src.attrs[i].form = "alias"
                        THEN GetAttrKind(AttrOf(QROOTGet(src.base), src.attrs[i].a).raw)
                        ELSE src.attrs[i].form]]]

(***************************************************************************)
(* pythonize.py: pythonized(cls), one action per step of a call            *)
(***************************************************************************)
\* os.path.join(SOURCE_PATH, "lock"): one lock for every class
LockPathPerClass(name) == name

LockPath(name) == "lock"

LockPaths == { "lock" } \cup ClassNames

\* os.path.isfile(out_name)
IsFileOfOtherPath(name) == FALSE

IsFile(name) == file[name].state # "absent"

OutName(p) == ClassName(arg[p])

PythonizeAtRest ==
  /\ pc = [p \in Procs |-> "idle"]
  /\ arg = [p \in Procs |-> "none"]
  /\ calls = 0
  /\ foundAbsent = [p \in Procs |-> FALSE]
  /\ outcome = [p \in Procs |-> "none"]
  /\ result = [p \in Procs |-> NoClass]
  /\ lockHolder = [l \in LockPaths |-> 0]
  /\ missCalls = [n \in ClassNames |-> 0]
  /\ attempts = [n \in ClassNames |-> 0]
  /\ successes = [n \in ClassNames |-> 0]

\* pythonized(cls) is called
Call(p, c) ==
  /\ pc[p] = "idle"
  /\ calls < MaxCalls
  /\ pc' = [pc EXCEPT ![p] = "lock"]
  /\ arg' = [arg EXCEPT ![p] = c]
  /\ calls' = calls + 1
  /\ missCalls' = [missCalls EXCEPT ![ClassName(c)] =
                     IF generatedBy[ClassName(c)] # 0 THEN @
                     ELSE IF \E q \in Procs \ {p} :
                               /\ pc[q] = "lock"
                               /\ ClassName(arg[q]) = ClassName(c)
                          THEN @ + 1
                          ELSE 1]
  /\ UNCHANGED << foundAbsent, outcome, result, lockHolder, file,
                  generatedBy, generatedFrom, attempts, successes >>
  /\ UNCHANGED << decVars, legVars, h5Vars >>

\* with LockFile(...): entered once the lock is free
AcquireLock(p) ==
  /\ pc[p] = "lock"
  /\ lockHolder[LockPath(OutName(p))] = 0
  /\ lockHolder' = [lockHolder EXCEPT ![LockPath(OutName(p))] = p]
  /\ pc' = [pc EXCEPT ![p] = "check"]
  /\ UNCHANGED << arg, calls, foundAbsent, outcome, result, file,
                  generatedBy, generatedFrom, missCalls, attempts, successes >>
  /\ UNCHANGED << decVars, legVars, h5Vars >>

\* if not os.path.isfile(out_name)
CheckFile(p) ==
  /\ pc[p] = "check"
  /\ foundAbsent' = [foundAbsent EXCEPT ![p] = (file[OutName(p)].state = "absent")]
  /\ pc' = [pc EXCEPT ![p] = IF ~IsFile(OutName(p)) THEN "open" ELSE "release"]
  /\ UNCHANGED << arg, calls, outcome, result, lockHolder, file,
                  generatedBy, generatedFrom, missCalls, attempts, successes >>
  /\ UNCHANGED << decVars, legVars, h5Vars >>

\* open(out_name, 'w') creates the file, or truncates it
OpenFile(p) ==
  /\ pc[p] = "open"
  /\ file' = [file EXCEPT ![OutName(p)] = Truncated]
  /\ attempts' = [attempts EXCEPT ![OutName(p)] = @ + 1]
  /\ pc' = [pc EXCEPT ![p] = "write"]
  /\ UNCHANGED << arg, calls, foundAbsent, outcome, result, lockHolder,
                  generatedBy, generatedFrom, missCalls, successes >>
  /\ UNCHANGED << decVars, legVars, h5Vars >>

\* the source is built and written, and the file closed
WriteFile(p) ==
  /\ pc[p] = "write"
  /\ file' = [file EXCEPT ![OutName(p)] = ClassSource(arg[p])]
  /\ generatedBy' = [generatedBy EXCEPT ![OutName(p)] = p]
  /\ generatedFrom' = [generatedFrom EXCEPT ![OutName(p)] = arg[p]]
  /\ successes' = [successes EXCEPT ![OutName(p)] = @ + 1]
  /\ pc' = [pc EXCEPT ![p] = "release"]
  /\ UNCHANGED << arg, calls, foundAbsent, outcome, result, lockHolder, missCalls, attempts >>
  /\ UNCHANGED << decVars, legVars, h5Vars >>

\* an exception inside the try block (inspection, parsing or I/O)
GenerateFails(p) ==
  /\ pc[p] = "write"
  /\ pc' = [pc EXCEPT ![p] = "except"]
  /\ UNCHANGED << arg, calls, foundAbsent, outcome, result, lockHolder, file,
                  generatedBy, generatedFrom, missCalls, attempts, successes >>
  /\ UNCHANGED << decVars, legVars, h5Vars >>

\* except: os.unlink(out_name); raise
Unlink(p) ==
  /\ pc[p] = "except"
  /\ file' = [file EXCEPT ![OutName(p)] = Absent]
  /\ outcome' = [outcome EXCEPT ![p] = "GenerateError"]
  /\ pc' = [pc EXCEPT ![p] = "release"]
  /\ UNCHANGED << arg, calls, foundAbsent, result, lockHolder,
                  generatedBy, generatedFrom, missCalls, attempts, successes >>
  /\ UNCHANGED << decVars, legVars, h5Vars >>

\* the with block is left: the lock is released, also when raising
ReleaseLock(p) ==
  /\ pc[p] = "release"
  /\ lockHolder' = [lockHolder EXCEPT ![LockPath(OutName(p))] = 0]
  /\ pc' = [pc EXCEPT ![p] = IF outcome[p] = "GenerateError" THEN "done" ELSE "load"]
  /\ UNCHANGED << arg, calls, foundAbsent, outcome, result, file,
                  generatedBy, generatedFrom, missCalls, attempts, successes >>
  /\ UNCHANGED << decVars, legVars, h5Vars >>

\* imp.load_source and getattr(modhandle, subcls_name), outside the lock
LoadSource(p) ==
  /\ pc[p] = "load"
  /\ LET src == file[OutName(p)]
         err == LoadError(src)
     IN /\ outcome' = [outcome EXCEPT ![p] = IF err = "none" THEN "returned" ELSE err]
        /\ result' = [result EXCEPT ![p] = IF err = "none" THEN LoadedClass(src) ELSE NoClass]
  /\ pc' = [pc EXCEPT ![p] = "done"]
  /\ UNCHANGED << arg, calls, foundAbsent, lockHolder, file,
                  generatedBy, generatedFrom, missCalls, attempts, successes >>
  /\ UNCHANGED << decVars, legVars, h5Vars >>

\* the caller goes on and may call again
Return(p) ==
  /\ pc[p] = "done"
  /\ calls < MaxCalls
  /\ pc' = [pc EXCEPT ![p] = "idle"]
  /\ arg' = [arg EXCEPT ![p] = "none"]
  /\ foundAbsent' = [foundAbsent EXCEPT ![p] = FALSE]
  /\ outcome' = [outcome EXCEPT ![p] = "none"]
  /\ result' = [result EXCEPT ![p] = NoClass]
  /\ UNCHANGED << calls, lockHolder, file, generatedBy, generatedFrom, missCalls, attempts, successes >>
  /\ UNCHANGED << decVars, legVars, h5Vars >>

NextPythonize ==
  \E p \in Procs :
    \/ \E c \in ClassIds : Call(p, c)
    \/ AcquireLock(p)
    \/ CheckFile(p)
    \/ OpenFile(p)
    \/ WriteFile(p)
    \/ GenerateFails(p)
    \/ Unlink(p)
    \/ ReleaseLock(p)
    \/ LoadSource(p)
    \/ Return(p)

(***************************************************************************)
(* decorators.py: values                                                   *)
(***************************************************************************)

\* ROOT versions as the integers ROOT_VERSION compares as
Versions == { 52800, 53400, 60400 }

TFiles == { "file1", "file2" }

Directories == { "TROOT" } \cup TFiles

\* values passed as `exception`
ExceptionArgs ==
  { "False", "None", "True", "ValueError", "ValueError()", "KeyboardInterrupt", "int" }

\* inspect.isclass(exception)
IsClass(e) == e \in { "ValueError", "KeyboardInterrupt", "int" }

\* issubclass(exception, Exception), for a class
IsSubclassOfBaseException(e) == e \in { "ValueError", "KeyboardInterrupt" }

IsSubclassOfException(e) == e = "ValueError"

\* bool(exception)
Truthy(e) == e \notin { "False", "None" }

BodyArgs == { 1, 42 }

\* what the decorated function returns for its argument
BodyValue(a) == << "f", a >>

NoCall == [decorator |-> "none", version |-> 0, exception |-> "False",
           a |-> 0, dirAtCall |-> "TROOT"]

\* Python values: None, an exception, or what the decorated function returns
PyNone == << "None", 0 >>

Exc(e) == << e, 0 >>

NoOutcome == [status |-> "none", value |-> PyNone, warned |-> FALSE,
              bodyCalls |-> 0, bodyArg |-> 0, bodyDir |-> "none"]

Returned(v, warned, n, a, d) ==
  [status |-> "returned", value |-> v, warned |-> warned,
   bodyCalls |-> n, bodyArg |-> a, bodyDir |-> d]

Raised(e, n, a, d) ==
  [status |-> "raised", value |-> Exc(e), warned |-> FALSE,
   bodyCalls |-> n, bodyArg |-> a, bodyDir |-> d]

DecoratorsAtRest ==
  /\ curDir = "TROOT"
  /\ fileMode = [f \in TFiles |-> "closed"]
  /\ objDir = "none"
  /\ dpc = "idle"
  /\ savedDir = "TROOT"
  /\ bodyMoved = FALSE
  /\ dcall = NoCall
  /\ dout = NoOutcome

(***************************************************************************)
(* The callers of the decorated methods (tests/test_decorators.py)         *)
(***************************************************************************)
\* TemporaryFile() / a file opened read-only: the new file becomes current
TFileOpen(f, mode) ==
  /\ dpc = "idle"
  /\ fileMode[f] = "closed"
  /\ fileMode' = [fileMode EXCEPT ![f] = mode]
  /\ curDir' = f
  /\ UNCHANGED << rootVersion, objDir, dpc, savedDir, bodyMoved, dcall, dout >>
  /\ UNCHANGED << pyVars, legVars, h5Vars >>

IsOpenDir(d) == IF d = "TROOT" THEN TRUE ELSE fileMode[d] # "closed"

\* an open directory is made current
Cd(d) ==
  /\ dpc = "idle"
  /\ IsOpenDir(d)
  /\ curDir' = d
  /\ UNCHANGED << rootVersion, fileMode, objDir, dpc, savedDir, bodyMoved, dcall, dout >>
  /\ UNCHANGED << pyVars, legVars, h5Vars >>

\* foo.SetDirectory(file)
SetDirectory(d) ==
  /\ dpc = "idle"
  /\ d \in TFiles /\ fileMode[d] # "closed"
  /\ objDir' = d
  /\ UNCHANGED << rootVersion, curDir, fileMode, dpc, savedDir, bodyMoved, dcall, dout >>
  /\ UNCHANGED << pyVars, legVars, h5Vars >>

(***************************************************************************)
(* decorators.py: requires_ROOT                                            *)
(***************************************************************************)
\* ROOT_VERSION < version
TooOldOrEqual(version) == rootVersion <= version

TooOld(version) == rootVersion < version

\* wrap(f, *args, **kwargs)
RequiresROOTOutcome(version, exception, a) ==
  IF TooOld(version)
  THEN IF IsClass(exception) /\ IsSubclassOfException(exception)
       THEN Raised(exception, 0, 0, "none")
       ELSE IF Truthy(exception)
            THEN Raised("NotImplementedError", 0, 0, "none")
            ELSE Returned(PyNone, TRUE, 0, 0, "none")
  ELSE Returned(BodyValue(a), FALSE, 1, a, curDir)

CallRequiresROOT(version, exception, a) ==
  /\ dpc = "idle"
  /\ dcall' = [decorator |-> "requires_ROOT", version |-> version,
               exception |-> exception, a |-> a, dirAtCall |-> curDir]
  /\ dout' = RequiresROOTOutcome(version, exception, a)
  /\ UNCHANGED << rootVersion, curDir, fileMode, objDir, dpc, savedDir, bodyMoved >>
  /\ UNCHANGED << pyVars, legVars, h5Vars >>

(***************************************************************************)
(* decorators.py: method_file_check                                        *)
(***************************************************************************)
\* curr_dir.IsWritable()
IsWritableAlways(d) == TRUE

IsWritable(d) == fileMode[d] = "rw"

\* method_file_check(f, self, *args, **kwargs)
MethodFileCheckOutcome(a) ==
  IF curDir = "TROOT"
  THEN Raised("RuntimeError", 0, 0, "none")
  ELSE IF ~IsWritable(curDir)
       THEN Raised("RuntimeError", 0, 0, "none")
       ELSE Returned(BodyValue(a), FALSE, 1, a, curDir)

CallMethodFileCheck(a) ==
  /\ dpc = "idle"
  /\ dcall' = [decorator |-> "method_file_check", version |-> 0,
               exception |-> "False", a |-> a, dirAtCall |-> curDir]
  /\ dout' = MethodFileCheckOutcome(a)
  /\ UNCHANGED << rootVersion, curDir, fileMode, objDir, dpc, savedDir, bodyMoved >>
  /\ UNCHANGED << pyVars, legVars, h5Vars >>

(***************************************************************************)
(* decorators.py: method_file_cd                                           *)
(***************************************************************************)
\* self.GetDirectory().cd()
DirectoryAfterNoCd(d) == curDir

DirectoryAfterCd(d) == d

\* with preserve_current_directory(): self.GetDirectory().cd().  An object
\* that belongs to no directory has nothing to cd to: the call raises and
\* the context manager restores the directory.
CallMethodFileCd(a) ==
  /\ dpc = "idle"
  /\ dcall' = [decorator |-> "method_file_cd", version |-> 0,
               exception |-> "False", a |-> a, dirAtCall |-> curDir]
  /\ savedDir' = curDir
  /\ IF objDir = "none"
     THEN /\ curDir' = curDir
          /\ dpc' = "idle"
          /\ dout' = Raised("AttributeError", 0, 0, "none")
     ELSE /\ curDir' = DirectoryAfterCd(objDir)
          /\ dpc' = "body"
          /\ dout' = [NoOutcome EXCEPT !.bodyCalls = 1, !.bodyArg = a,
                                       !.bodyDir = DirectoryAfterCd(objDir)]
  /\ bodyMoved' = FALSE
  /\ UNCHANGED << rootVersion, fileMode, objDir >>
  /\ UNCHANGED << pyVars, legVars, h5Vars >>

\* the body itself changes directory
BodyCd(d) ==
  /\ dpc = "body"
  /\ IsOpenDir(d)
  /\ d # curDir
  /\ curDir' = d
  /\ bodyMoved' = TRUE
  /\ UNCHANGED << rootVersion, fileMode, objDir, dpc, savedDir, dcall, dout >>
  /\ UNCHANGED << pyVars, legVars, h5Vars >>

\* return f(self, ...): the context manager restores the directory
BodyReturns ==
  /\ dpc = "body"
  /\ dout' = [dout EXCEPT !.status = "returned", !.value = BodyValue(dcall.a)]
  /\ curDir' = savedDir
  /\ dpc' = "idle"
  /\ UNCHANGED << rootVersion, fileMode, objDir, savedDir, bodyMoved, dcall >>
  /\ UNCHANGED << pyVars, legVars, h5Vars >>

\* f raises: the context manager restores the directory, the exception
\* goes on to the caller
BodyRaises ==
  /\ dpc = "body"
  /\ dout' = [dout EXCEPT !.status = "raised", !.value = Exc("AssertionError")]
  /\ curDir' = savedDir
  /\ dpc' = "idle"
  /\ UNCHANGED << rootVersion, fileMode, objDir, savedDir, bodyMoved, dcall >>
  /\ UNCHANGED << pyVars, legVars, h5Vars >>

NextDecorators ==
  \/ \E f \in TFiles, mode \in {"rw", "ro"} : TFileOpen(f, mode)
  \/ \E d \in Directories : Cd(d)
  \/ \E d \in TFiles : SetDirectory(d)
  \/ \E v \in Versions, e \in ExceptionArgs, a \in BodyArgs : CallRequiresROOT(v, e, a)
  \/ \E a \in BodyArgs : CallMethodFileCheck(a)
  \/ \E a \in BodyArgs : CallMethodFileCd(a)
  \/ \E d \in Directories : BodyCd(d)
  \/ BodyReturns
  \/ BodyRaises

(***************************************************************************)
(* plotting/legend.py: Legend.AddEntry                                     *)
(***************************************************************************)

\* The plottables: title, legendstyle and inlegend ("unset": no such attribute)
Hists == { "red", "blue", "green", "hidden" }

GetTitle(h) ==
  CASE h = "red" -> "Red"
    [] h = "blue" -> "Blue"
    [] h = "green" -> "Green"
    [] h = "hidden" -> "Hidden"

LegendStyleAttr(h) ==
  CASE h = "red" -> "F"
    [] h = "blue" -> "L"
    [] h = "green" -> "unset"
    [] h = "hidden" -> "unset"

InLegendAttr(h) ==
  CASE h = "red" -> "unset"
    [] h = "blue" -> "True"
    [] h = "green" -> "unset"
    [] h = "hidden" -> "False"

\* getattr(thing, 'inlegend', True)
InLegend(h) == InLegendAttr(h) # "False"

\* getattr(thing, 'legendstyle', 'P')
LegendStyle(h) == IF LegendStyleAttr(h) = "unset" THEN "P" ELSE LegendStyleAttr(h)

\* A HistStack is the sequence of its histograms; anything else is one thing
HistStacks == UNION { [1..n -> Hists] : n \in 0..MaxStackLen }

Thing(isStack, hists) == [isStack |-> isStack, hists |-> hists]

Things ==
  { Thing(FALSE, << h >>) : h \in Hists } \cup { Thing(TRUE, s) : s \in HistStacks }

LabelArgs == { "None", "my label" }

StyleArgs == { "None", "LEP" }

Entry(obj, label, style) == [obj |-> obj, label |-> label, style |-> style]

\* the for loop of AddEntry; label and style are the method's own variables
RECURSIVE AddEntryLoop(_, _, _, _)
AddEntryLoop(things, i, label, style) ==
  IF i > Len(things) THEN << >>
  ELSE IF InLegend(things[i])
       THEN LET label1 == IF label = "None" THEN GetTitle(things[i]) ELSE label
                style1 == IF style = "None" THEN LegendStyle(things[i]) ELSE style
            IN << Entry(things[i], label1, style1) >>
               \o AddEntryLoop(things, i + 1, label1, style1)
       ELSE AddEntryLoop(things, i + 1, label, style)

LegendAtRest ==
  /\ legendEntries = << >>
  /\ keptAlive = {}
  /\ legendCalls = 0
  /\ lastAdd = [thing |-> Thing(FALSE, << "red" >>), label |-> "None",
                style |-> "None", before |-> 0]

\* Legend.AddEntry(thing, label, style)
AddEntry(thing, label, style) ==
  /\ legendCalls < MaxLegendCalls
  /\ LET added == AddEntryLoop(thing.hists, 1, label, style)
     IN /\ legendEntries' = legendEntries \o added
        /\ keptAlive' = keptAlive \cup { added[i].obj : i \in 1..Len(added) }
  /\ legendCalls' = legendCalls + 1
  /\ lastAdd' = [thing |-> thing, label |-> label, style |-> style,
                 before |-> Len(legendEntries)]
  /\ UNCHANGED << pyVars, decVars, h5Vars >>

NextLegend ==
  \E thing \in Things, label \in LabelArgs, style \in StyleArgs :
    AddEntry(thing, label, style)

(***************************************************************************)
(* root2hdf5.py: the trees and root_numpy.tree2array                       *)
(***************************************************************************)
\* values of the branch x of an entry
EntryValues == { 1, 2 }

TreeRows == UNION { [1..n -> EntryValues] : n \in 0..MaxEntries }

\* a TTree: its entries, and whether it has a branch that tree2array can
\* only give as a column of type object
Trees == [rows : TreeRows, hasObject : BOOLEAN]

\* selection expressions: none, or a cut on x
Selections == { "None", "x > 1" }

Passes(sel, v) == IF sel = "None" THEN TRUE ELSE v > 1

\* a structured array: the fields of its dtype and its records
Array(fields, rows) == [fields |-> fields, rows |-> rows]

TreeFields(tree) == IF tree.hasObject THEN { "x", "o" } ELSE { "x" }

Rec(tree, i) ==
  [f \in TreeFields(tree) |-> IF f = "x" THEN tree.rows[i] ELSE 0]

\* the entries i..stop that pass the selection, in tree order
RECURSIVE RowsFrom(_, _, _, _)
RowsFrom(tree, sel, i, stop) ==
  IF i > stop \/ i > Len(tree.rows) THEN << >>
  ELSE (IF Passes(sel, tree.rows[i]) THEN << Rec(tree, i) >> ELSE << >>)
       \o RowsFrom(tree, sel, i + 1, stop)

\* tree2array(tree, selection=selection, start=start, stop=stop): entries
\* start <= i < stop, counted from 0
tree2array(tree, sel, start, stop) ==
  Array(TreeFields(tree), RowsFrom(tree, sel, start + 1, stop))

\* tree2array(tree, selection=selection): every entry
tree2array_all(tree, sel) ==
  Array(TreeFields(tree), RowsFrom(tree, sel, 1, Len(tree.rows)))

\* _drop_object_col(rec)
drop_object_col(rec) ==
  IF "o" \in rec.fields
  THEN Array(rec.fields \ { "o" },
             [i \in 1..Len(rec.rows) |->
                [f \in rec.fields \ { "o" } |-> rec.rows[i][f]]])
  ELSE rec

(***************************************************************************)
(* h5py, as tree2hdf5 calls it                                             *)
(***************************************************************************)
NoDataset == [exists |-> FALSE, fields |-> {}, rows |-> << >>]

Dataset(fields, rows) == [exists |-> TRUE, fields |-> fields, rows |-> rows]

\* the second positional argument of create_dataset is the shape: what is
\* passed there is either a shape or, at line 124, the array itself
ShapeArg(dims) == [kind |-> "shape", dims |-> dims, array |-> Array({}, << >>)]

ArrayArg(array) == [kind |-> "array", dims |-> << >>, array |-> array]

\* array.shape
ShapeOf(array) == << Len(array.rows) >>

\* the default dtype of a dataset created without dtype and data
DefaultFields == { "f4" }

FillRows(fields, n) == [i \in 1..n |-> [f \in fields |-> 0]]

\* Group.create_dataset(name, shape, dtype=dtype, maxshape=[None]): h5py
\* takes tuple(shape) as the dimensions.  The records of an array are no
\* dimensions (TypeError); an empty array gives the shape () of a scalar,
\* which cannot have the one-dimensional maxshape (TypeError).  With a
\* shape of rank one the dataset is created with that many unwritten rows.
create_dataset(shape, fields) ==
  IF shape.kind = "array"
  THEN [error |-> "TypeError", dset |-> NoDataset]
  ELSE IF Len(shape.dims) # 1
       THEN [error |-> "TypeError", dset |-> NoDataset]
       ELSE [error |-> "none", dset |-> Dataset(fields, FillRows(fields, shape.dims[1]))]

\* dset.resize(size, axis=0)
resize(dset, size) ==
  IF size >= Len(dset.rows)
  THEN [dset EXCEPT !.rows = @ \o FillRows(dset.fields, size - Len(dset.rows))]
  ELSE [dset EXCEPT !.rows = SubSeq(@, 1, size)]

\* dset[prev_size:] = array
assign_from(dset, prev_size, array) ==
  [dset EXCEPT !.rows = SubSeq(@, 1, prev_size) \o array.rows]

(***************************************************************************)
(* root2hdf5.py: tree2hdf5, one action per step of a call                  *)
(***************************************************************************)
EntriesArgs == (-1)..MaxChunk

\* the branch `if entries <= 0`: the whole tree is read and the dataset
\* created from it
WholeTree(tree, sel) ==
  LET array == drop_object_col(tree2array_all(tree, sel))
  IN create_dataset(ArrayArg(array), DefaultFields)

\* one turn of the while loop on a dataset that is there from start 0 on
ChunkStep(tree, sel, entries, start, dset) ==
  LET array == drop_object_col(tree2array(tree, sel, start, start + entries))
  IN IF start > 0
     THEN LET prev_size == Len(dset.rows)
          IN assign_from(resize(dset, prev_size + Len(array.rows)), prev_size, array)
     ELSE LET made == create_dataset(ShapeArg(ShapeOf(array)), array.fields)
          IN assign_from(made.dset, 0, array)

TreeAtRest ==
  /\ ttree = [rows |-> << >>, hasObject |-> FALSE]
  /\ tsel = "None"
  /\ tentries = -1
  /\ tpc = "idle"
  /\ tstart = 0
  /\ tdset = NoDataset
  /\ tout = "none"

\* up to `if tree.GetName() in group: return`
TreeBegin ==
  /\ tpc = "start"
  /\ IF tdset.exists
     THEN tpc' = "done" /\ tout' = "exists"
     ELSE tpc' = (IF tentries <= 0 THEN "whole" ELSE "chunk") /\ tout' = tout
  /\ tstart' = 0
  /\ UNCHANGED << ttree, tsel, tentries, tdset >>
  /\ UNCHANGED << pyVars, decVars, legVars, convVars, mainVars >>

\* entries <= 0: read the entire tree
TreeReadWhole ==
  /\ tpc = "whole"
  /\ LET made == WholeTree(ttree, tsel)
     IN /\ tdset' = made.dset
        /\ tout' = (IF made.error = "none" THEN "converted" ELSE made.error)
  /\ tpc' = "done"
  /\ UNCHANGED << ttree, tsel, tentries, tstart >>
  /\ UNCHANGED << pyVars, decVars, legVars, convVars, mainVars >>

\* while start < total_entries or start == 0: one chunk
TreeReadChunk ==
  /\ tpc = "chunk"
  /\ tstart < Len(ttree.rows) \/ tstart = 0
  /\ tdset' = ChunkStep(ttree, tsel, tentries, tstart, tdset)
  /\ tstart' = tstart + tentries
  /\ UNCHANGED << ttree, tsel, tentries, tpc, tout >>
  /\ UNCHANGED << pyVars, decVars, legVars, convVars, mainVars >>

\* the while condition is false
TreeLoopEnd ==
  /\ tpc = "chunk"
  /\ ~(tstart < Len(ttree.rows) \/ tstart = 0)
  /\ tpc' = "done"
  /\ tout' = "converted"
  /\ UNCHANGED << ttree, tsel, tentries, tstart, tdset >>
  /\ UNCHANGED << pyVars, decVars, legVars, convVars, mainVars >>

NextTree ==
  \/ TreeBegin
  \/ TreeReadWhole
  \/ TreeReadChunk
  \/ TreeLoopEnd

(***************************************************************************)
(* root2hdf5.py: root2hdf5.  The ROOT file, the user function              *)
(***************************************************************************)
TreeNames == { "a", "b" }

\* the names a dataset can get: those of the trees, and "c", the name of
\* the extra tree a user function returns
DatasetNames == TreeNames \cup { "c" }

NameRank(n) == CASE n = "a" -> 1 [] n = "b" -> 2 [] n = "c" -> 3

\* the directories rfile.walk visits, in its order: the top, then "d"
DirPaths == << "", "d" >>

\* the names of the trees of a directory, in the order of its keys
KeyLists ==
  { << >>, << "a" >>, << "b" >>, << "a", "b" >>, << "b", "a" >> }

RootFiles == [1..Len(DirPaths) -> KeyLists]

\* a tree object: its name, which object it is (the one read from the
\* file, or the first or second one the user function made) and its entries
TreeObj(name, id, rows) == [name |-> name, id |-> id, rows |-> rows]

\* rfile.Get(os.path.join(dirpath, treename))
GetTree(treename) ==
  TreeObj(treename, "input", IF treename = "a" THEN << 1, 2 >> ELSE << 2 >>)

UserFuncs == { "None", "identity", "clone", "twins", "both" }

\* trees = userfunc(input_tree), made a list when it is none:
\*   identity returns the tree it was given;
\*   clone returns a new tree of the same name;
\*   twins returns a list of two new trees of the same name;
\*   both returns the list of the tree it was given and a new tree "c".
CallUserFunc(func, given) ==
  CASE func = "None" -> << given >>
    [] func = "identity" -> << given >>
    [] func = "clone" -> << TreeObj(given.name, "new1", << 2, 2 >>) >>
    [] func = "twins" ->
         << TreeObj(given.name, "new1", << 2, 2 >>),
            TreeObj(given.name, "new2", << 1 >>) >>
    [] func = "both" ->
         << given, TreeObj("c", "new1", << 1, 1 >>) >>

\* treenames.sort()
RECURSIVE SortNames(_)
SortNames(S) ==
  IF S = {} THEN << >>
  ELSE LET least == CHOOSE x \in S : \A y \in S : NameRank(x) <= NameRank(y)
       IN << least >> \o SortNames(S \ { least })

SortedTreeNames(names) ==
  SortNames({ names[i] : i \in 1..Len(names) })

(***************************************************************************)
(* root2hdf5.py: tree2hdf5 as root2hdf5 calls it                           *)
(***************************************************************************)
\* the while loop of the chunked branch, from start on
RECURSIVE ChunkedFrom(_, _, _, _, _)
ChunkedFrom(tree, sel, entries, start, dset) ==
  IF start < Len(tree.rows) \/ start = 0
  THEN ChunkedFrom(tree, sel, entries, start + entries,
                   ChunkStep(tree, sel, entries, start, dset))
  ELSE dset

\* tree2hdf5(tree, hfile, group=group, entries=entries): how it ends and
\* the dataset of the tree's name it leaves in the group.  A tree that
\* cannot be read makes tree2array raise before any dataset is created.
tree2hdf5(tree, entries, cannotRead, existing) ==
  LET content == [rows |-> tree.rows, hasObject |-> FALSE]
  IN IF existing.exists
     THEN [out |-> "exists", dset |-> existing]
     ELSE IF cannotRead
          THEN [out |-> "IOError", dset |-> NoDataset]
          ELSE IF entries <= 0
               THEN LET made == WholeTree(content, "None")
                    IN [out |-> IF made.error = "none" THEN "converted" ELSE made.error,
                        dset |-> made.dset]
               ELSE [out |-> "converted",
                     dset |-> ChunkedFrom(content, "None", entries, 0, NoDataset)]

Raises(out) == out \notin { "converted", "exists" }

(***************************************************************************)
(* root2hdf5.py: root2hdf5, one action per step                            *)
(***************************************************************************)
\* except Exception as e: if ignore_exception: log.error(...) else: raise
OnExceptionRaise(ignore) == "raise"

OnException(ignore) == IF ignore THEN "log" ELSE "raise"

NoTree == TreeObj("a", "none", << >>)

ConvertAtRest ==
  /\ rfile = [i \in 1..Len(DirPaths) |-> << >>]
  /\ userfunc = "None"
  /\ rentries = -1
  /\ ignore_exception = FALSE
  /\ unreadable = {}
  /\ rpc = "idle"
  /\ dirIdx = 1
  /\ treenames = << >>
  /\ treeIdx = 1
  /\ input_tree = NoTree
  /\ trees = << >>
  /\ treePos = 1
  /\ groups = {}
  /\ datasets = [g \in { "", "d" }, n \in DatasetNames |-> NoDataset]
  /\ userCalls = << >>
  /\ conversions = << >>
  /\ logged = << >>
  /\ deleted = {}

\* the for loop over rfile.walk reaches a directory without trees
WalkSkip ==
  /\ rpc = "walk"
  /\ dirIdx <= Len(DirPaths)
  /\ rfile[dirIdx] = << >>
  /\ dirIdx' = dirIdx + 1
  /\ UNCHANGED << rfile, userfunc, rentries, ignore_exception, unreadable, rpc,
                  treenames, treeIdx, input_tree, trees, treePos, groups, datasets,
                  userCalls, conversions, logged, deleted >>
  /\ UNCHANGED << pyVars, decVars, legVars, treeVars, mainVars >>

\* ... a directory with trees: the names are sorted and the group created
WalkDir ==
  /\ rpc = "walk"
  /\ dirIdx <= Len(DirPaths)
  /\ rfile[dirIdx] # << >>
  /\ treenames' = SortedTreeNames(rfile[dirIdx])
  /\ groups' = IF DirPaths[dirIdx] = "" THEN groups ELSE groups \cup { DirPaths[dirIdx] }
  /\ treeIdx' = 1
  /\ rpc' = "tree"
  /\ UNCHANGED << rfile, userfunc, rentries, ignore_exception, unreadable,
                  dirIdx, input_tree, trees, treePos, datasets,
                  userCalls, conversions, logged, deleted >>
  /\ UNCHANGED << pyVars, decVars, legVars, treeVars, mainVars >>

\* the walk is over: the files root2hdf5 opened are closed, it returns
WalkEnd ==
  /\ rpc = "walk"
  /\ dirIdx > Len(DirPaths)
  /\ rpc' = "done"
  /\ UNCHANGED << rfile, userfunc, rentries, ignore_exception, unreadable,
                  dirIdx, treenames, treeIdx, input_tree, trees, treePos, groups,
                  datasets, userCalls, conversions, logged, deleted >>
  /\ UNCHANGED << pyVars, decVars, legVars, treeVars, mainVars >>

\* for treename in treenames: the tree is read and the user function called
NextTreeOfDir ==
  /\ rpc = "tree"
  /\ treeIdx <= Len(treenames)
  /\ input_tree' = GetTree(treenames[treeIdx])
  /\ trees' = CallUserFunc(userfunc, GetTree(treenames[treeIdx]))
  /\ userCalls' = IF userfunc = "None" THEN userCalls
                  ELSE Append(userCalls, << DirPaths[dirIdx], treenames[treeIdx] >>)
  /\ treePos' = 1
  /\ rpc' = "convert"
  /\ UNCHANGED << rfile, userfunc, rentries, ignore_exception, unreadable,
                  dirIdx, treenames, treeIdx, groups, datasets,
                  conversions, logged, deleted >>
  /\ UNCHANGED << pyVars, decVars, legVars, treeVars, mainVars >>

\* the trees of the directory are done: next directory
DirEnd ==
  /\ rpc = "tree"
  /\ treeIdx > Len(treenames)
  /\ dirIdx' = dirIdx + 1
  /\ rpc' = "walk"
  /\ UNCHANGED << rfile, userfunc, rentries, ignore_exception, unreadable,
                  treenames, treeIdx, input_tree, trees, treePos, groups, datasets,
                  userCalls, conversions, logged, deleted >>
  /\ UNCHANGED << pyVars, decVars, legVars, treeVars, mainVars >>

\* for tree in trees: try: tree2hdf5(...) except Exception ...
ConvertTree ==
  /\ rpc = "convert"
  /\ treePos <= Len(trees)
  /\ LET tree == trees[treePos]
         g == DirPaths[dirIdx]
         call == tree2hdf5(tree, rentries, tree.name \in unreadable,
                           datasets[g, tree.name])
         raised == Raises(call.out)
     IN /\ datasets' = [datasets EXCEPT ![g, tree.name] = call.dset]
        /\ conversions' = Append(conversions,
                              [dir |-> g, tree |-> tree, out |-> call.out])
        /\ logged' = IF raised /\ OnException(ignore_exception) = "log"
                     THEN Append(logged, << g, tree.name, tree.id >>)
                     ELSE logged
        /\ rpc' = IF raised /\ OnException(ignore_exception) = "raise"
                  THEN "raised" ELSE "convert"
        /\ treePos' = IF raised /\ OnException(ignore_exception) = "raise"
                THEN treePos ELSE treePos + 1
  /\ UNCHANGED << rfile, userfunc, rentries, ignore_exception, unreadable,
                  dirIdx, treenames, treeIdx, input_tree, trees, groups,
                  userCalls, deleted >>
  /\ UNCHANGED << pyVars, decVars, legVars, treeVars, mainVars >>

\* the objects Delete() is called on after the loop, in order
DeleteCalls ==
  << input_tree >> \o (IF userfunc # "None" THEN trees ELSE << >>)

\* some object is deleted a second time
DeletesTwice ==
  \E i, j \in 1..Len(DeleteCalls) : i < j /\ DeleteCalls[i].id = DeleteCalls[j].id

\* input_tree.Delete(), tree.Delete() for each tree, tmp_file.Close()
DeleteTrees ==
  /\ rpc = "convert"
  /\ treePos > Len(trees)
  /\ deleted' = deleted \cup
       { << DirPaths[dirIdx], treenames[treeIdx], DeleteCalls[i].id >> :
           i \in 1..Len(DeleteCalls) }
  /\ treeIdx' = treeIdx + 1
  /\ rpc' = "tree"
  /\ UNCHANGED << rfile, userfunc, rentries, ignore_exception, unreadable,
                  dirIdx, treenames, input_tree, trees, treePos, groups, datasets,
                  userCalls, conversions, logged >>
  /\ UNCHANGED << pyVars, decVars, legVars, treeVars, mainVars >>

\* Delete() on a tree that Delete() has already destroyed: the call works
\* on freed memory and may bring the process down instead of returning
DeleteCrashes ==
  /\ rpc = "convert"
  /\ treePos > Len(trees)
  /\ DeletesTwice
  /\ rpc' = "crashed"
  /\ UNCHANGED << rfile, userfunc, rentries, ignore_exception, unreadable,
                  dirIdx, treenames, treeIdx, input_tree, trees, treePos, groups,
                  datasets, userCalls, conversions, logged, deleted >>
  /\ UNCHANGED << pyVars, decVars, legVars, treeVars, mainVars >>

NextConvert ==
  \/ WalkSkip
  \/ WalkDir
  \/ WalkEnd
  \/ NextTreeOfDir
  \/ DirEnd
  \/ ConvertTree
  \/ DeleteTrees
  \/ DeleteCrashes

(***************************************************************************)
(* root2hdf5.py: main, the command line.                                   *)
(***************************************************************************)
\* a file name is its stem and its extension
InputNames == { << "x", "root" >>, << "x", "dat" >>, << "y", "root" >> }

\* args.ext, stripped of its dots
Ext == "h5"

\* os.path.splitext(inputname)[0] + '.' + args.ext
OutputName(inputname) == << inputname[1], Ext >>

OutputNames == { OutputName(n) : n \in InputNames }

\* what an output file written by an earlier run holds: the trees of some
\* other input
OldContent == { << "old", "root" >> }

\* the mode h5py.File is given
OpenModeOverwrite(update) == "w"

OpenMode(update) == IF update THEN "a" ELSE "w"

\* h5py.File(name, mode): 'w' creates the file or truncates it, 'a' creates
\* it or keeps what it holds
ContentOpened(mode, held) == IF mode = "w" THEN {} ELSE held

\* the outcomes of the call of root2hdf5
ConvertOutcomes == { "returned", "Exception", "KeyboardInterrupt" }

MainAtRest ==
  /\ args_files = << >>
  /\ args_force = FALSE
  /\ args_update = FALSE
  /\ openable = {}
  /\ creatable = {}
  /\ present = {}
  /\ holds = [o \in OutputNames |-> {}]
  /\ mpc = "idle"
  /\ fileIdx = 1
  /\ output_exists = FALSE
  /\ opened = << >>
  /\ exitMsg = "none"

\* for inputname in args.files: the output exists and neither flag is given
MainExists ==
  /\ mpc = "check"
  /\ fileIdx <= Len(args_files)
  /\ OutputName(args_files[fileIdx]) \in present
  /\ ~(args_force \/ args_update)
  /\ output_exists' = TRUE
  /\ mpc' = "exited"
  /\ exitMsg' = "Output already exists"
  /\ UNCHANGED << args_files, args_force, args_update, openable, creatable,
                  present, holds, fileIdx, opened >>
  /\ UNCHANGED << pyVars, decVars, legVars, treeVars, convVars >>

\* for inputname in args.files: the output may be written
MainCheck ==
  /\ mpc = "check"
  /\ fileIdx <= Len(args_files)
  /\ LET exists == OutputName(args_files[fileIdx]) \in present
     IN  /\ ~(exists /\ ~(args_force \/ args_update))
         /\ output_exists' = exists
  /\ mpc' = "root_open"
  /\ UNCHANGED << args_files, args_force, args_update, openable, creatable,
                  present, holds, fileIdx, opened, exitMsg >>
  /\ UNCHANGED << pyVars, decVars, legVars, treeVars, convVars >>

\* rootfile = root_open(inputname), or IOError
MainOpenInput ==
  /\ mpc = "root_open"
  /\ IF args_files[fileIdx] \in openable
     THEN /\ mpc' = "h5py_File"
          /\ UNCHANGED exitMsg
     ELSE /\ mpc' = "exited"
          /\ exitMsg' = "Could not open"
  /\ UNCHANGED << args_files, args_force, args_update, openable, creatable,
                  present, holds, fileIdx, output_exists, opened >>
  /\ UNCHANGED << pyVars, decVars, legVars, treeVars, convVars >>

\* hd5file = h5py.File(outputname, 'a' if args.update else 'w'), or IOError
MainOpenOutput ==
  /\ mpc = "h5py_File"
  /\ LET outputname == OutputName(args_files[fileIdx])
         mode == OpenMode(args_update)
     IN  IF outputname \in creatable
         THEN /\ present' = present \cup { outputname }
              /\ holds' = [holds EXCEPT
                               ![outputname] = ContentOpened(mode, @)]
              /\ opened' = Append(opened, << fileIdx, outputname, mode >>)
              /\ mpc' = "root2hdf5"
              /\ UNCHANGED exitMsg
         ELSE /\ mpc' = "exited"
              /\ exitMsg' = "Could not create"
              /\ UNCHANGED << present, holds, opened >>
  /\ UNCHANGED << args_files, args_force, args_update, openable, creatable,
                  fileIdx, output_exists >>
  /\ UNCHANGED << pyVars, decVars, legVars, treeVars, convVars >>

\* the call of root2hdf5, its handlers and the finally clause
MainConvert ==
  /\ mpc = "root2hdf5"
  /\ LET inputname == args_files[fileIdx]
         outputname == OutputName(inputname)
     IN  \E ending \in ConvertOutcomes, wrote \in BOOLEAN :
           /\ ending = "returned" => wrote
           /\ LET held == IF wrote THEN holds[outputname] \cup { inputname }
                          ELSE holds[outputname]
              IN  CASE ending = "returned" ->
                         /\ holds' = [holds EXCEPT ![outputname] = held]
                         /\ fileIdx' = fileIdx + 1
                         /\ mpc' = "check"
                         /\ UNCHANGED << present, exitMsg >>
                    [] ending = "Exception" ->
                         /\ holds' = [holds EXCEPT ![outputname] = held]
                         /\ mpc' = "exited"
                         /\ exitMsg' = "1"
                         /\ UNCHANGED << present, fileIdx >>
                    [] ending = "KeyboardInterrupt" ->
                         /\ IF output_exists
                            THEN /\ holds' =
                                      [holds EXCEPT ![outputname] = held]
                                 /\ UNCHANGED present
                            ELSE /\ holds' =
                                      [holds EXCEPT ![outputname] = {}]
                                 /\ present' = present \ { outputname }
                         /\ mpc' = "exited"
                         /\ exitMsg' = "1"
                         /\ UNCHANGED fileIdx
  /\ UNCHANGED << args_files, args_force, args_update, openable, creatable,
                  output_exists, opened >>
  /\ UNCHANGED << pyVars, decVars, legVars, treeVars, convVars >>

\* for inputname in args.files: exhausted
MainEnd ==
  /\ mpc = "check"
  /\ fileIdx > Len(args_files)
  /\ mpc' = "done"
  /\ UNCHANGED << args_files, args_force, args_update, openable, creatable,
                  present, holds, fileIdx, output_exists, opened, exitMsg >>
  /\ UNCHANGED << pyVars, decVars, legVars, treeVars, convVars >>

NextMain ==
  \/ MainExists
  \/ MainCheck
  \/ MainOpenInput
  \/ MainOpenOutput
  \/ MainConvert
  \/ MainEnd

(***************************************************************************)
(* Specifications: one per part of the program; the other parts rest.      *)
(***************************************************************************)
\* no cache file yet
NoFiles ==
  /\ file = [n \in ClassNames |-> Absent]
  /\ generatedFrom = [n \in ClassNames |-> "none"]
  /\ generatedBy = [n \in ClassNames |-> 0]

\* The cache directory before the first call: for each name no file, or
\* the file an earlier run generated from a class of that name
InitPythonize ==
  /\ PythonizeAtRest
  /\ generatedFrom \in [ClassNames -> ClassIds \cup {"none"}]
  /\ \A n \in ClassNames :
       generatedFrom[n] # "none" => ClassName(generatedFrom[n]) = n
  /\ file = [n \in ClassNames |->
               IF generatedFrom[n] = "none" THEN Absent
               ELSE ClassSource(generatedFrom[n])]
  /\ generatedBy = [n \in ClassNames |-> IF generatedFrom[n] = "none" THEN 0 ELSE -1]
  /\ rootVersion = 53400
  /\ DecoratorsAtRest
  /\ LegendAtRest
  /\ TreeAtRest
  /\ ConvertAtRest
  /\ MainAtRest

InitDecorators ==
  /\ rootVersion \in Versions
  /\ DecoratorsAtRest
  /\ PythonizeAtRest
  /\ NoFiles
  /\ LegendAtRest
  /\ TreeAtRest
  /\ ConvertAtRest
  /\ MainAtRest

InitLegend ==
  /\ LegendAtRest
  /\ PythonizeAtRest
  /\ NoFiles
  /\ rootVersion = 53400
  /\ DecoratorsAtRest
  /\ TreeAtRest
  /\ ConvertAtRest
  /\ MainAtRest

PythonizeSpec == InitPythonize /\ [][NextPythonize]_vars

DecoratorSpec == InitDecorators /\ [][NextDecorators]_vars

LegendSpec == InitLegend /\ [][NextLegend]_vars

\* a call of tree2hdf5 on any tree, into a group that may already hold a
\* dataset of the tree's name
InitTree ==
  /\ ttree \in Trees
  /\ tsel \in Selections
  /\ tentries \in EntriesArgs
  /\ tdset \in { NoDataset, Dataset({ "x" }, << >>) }
  /\ tpc = "start"
  /\ tstart = 0
  /\ tout = "none"
  /\ ConvertAtRest
  /\ PythonizeAtRest
  /\ NoFiles
  /\ rootVersion = 53400
  /\ DecoratorsAtRest
  /\ LegendAtRest
  /\ MainAtRest

TreeSpec == InitTree /\ [][NextTree]_vars

\* a call of root2hdf5 on any file, into an HDF5 file just created
InitConvert ==
  /\ rfile \in RootFiles
  /\ userfunc \in UserFuncs
  /\ rentries \in { -1, MaxChunk }
  /\ ignore_exception \in BOOLEAN
  /\ unreadable \in SUBSET TreeNames
  /\ rpc = "walk"
  /\ dirIdx = 1
  /\ treenames = << >>
  /\ treeIdx = 1
  /\ input_tree = NoTree
  /\ trees = << >>
  /\ treePos = 1
  /\ groups = {}
  /\ datasets = [g \in { "", "d" }, n \in DatasetNames |-> NoDataset]
  /\ userCalls = << >>
  /\ conversions = << >>
  /\ logged = << >>
  /\ deleted = {}
  /\ TreeAtRest
  /\ PythonizeAtRest
  /\ NoFiles
  /\ rootVersion = 53400
  /\ DecoratorsAtRest
  /\ LegendAtRest
  /\ MainAtRest

ConvertSpec == InitConvert /\ [][NextConvert]_vars

\* a run of the command line on one or more inputs, in a directory that
\* may hold output files of an earlier run
InitMain ==
  /\ args_files \in UNION { [1..n -> InputNames] : n \in 1..MaxFiles }
  /\ args_force \in BOOLEAN
  /\ args_update \in BOOLEAN
  /\ openable \in SUBSET InputNames
  /\ creatable \in SUBSET OutputNames
  /\ present \in SUBSET OutputNames
  /\ holds = [o \in OutputNames |-> IF o \in present THEN OldContent ELSE {}]
  /\ mpc = "check"
  /\ fileIdx = 1
  /\ output_exists = FALSE
  /\ opened = << >>
  /\ exitMsg = "none"
  /\ TreeAtRest
  /\ ConvertAtRest
  /\ PythonizeAtRest
  /\ NoFiles
  /\ rootVersion = 53400
  /\ DecoratorsAtRest
  /\ LegendAtRest

MainSpec == InitMain /\ [][NextMain]_vars

(***************************************************************************)
(* Claims about pythonized (checked under PythonizeSpec)                   *)
(***************************************************************************)
\* between open(out_name, 'w') and the end of the try statement
Generating(p) == pc[p] \in { "open", "write", "except" }

\* inside the with LockFile block
InLockBlock(p) == pc[p] \in { "check", "open", "write", "except", "release" }

CallersOf(n) == { p \in Procs : arg[p] # "none" /\ OutName(p) = n }

\* every call made for the name so far has ended
AllCallsEnded(n) == \A p \in CallersOf(n) : pc[p] = "done"

C1_Step ==
  /\ \A n \in ClassNames :
       file'[n] # file[n] =>
         \E p \in CallersOf(n) : foundAbsent[p] /\ Generating(p)
  /\ \A n \in ClassNames : generatedBy[n] # 0 => file'[n] = file[n]
  /\ \A p \in Procs :
       (pc[p] = "load" /\ pc'[p] = "done") =>
         /\ generatedBy[OutName(p)] # 0
         /\ file[OutName(p)] = ClassSource(generatedFrom[OutName(p)])
         /\ outcome'[p] =
              (IF LoadError(ClassSource(generatedFrom[OutName(p)])) = "none"
               THEN "returned"
               ELSE LoadError(ClassSource(generatedFrom[OutName(p)])))
         /\ outcome'[p] = "returned" =>
              result'[p] = LoadedClass(ClassSource(generatedFrom[OutName(p)]))

C2_LockDiscipline ==
  /\ \A p \in Procs : InLockBlock(p) => lockHolder["lock"] = p
  /\ \A p, q \in Procs : (Generating(p) /\ Generating(q)) => p = q

\* C2 as stated: the check and the generation happen under the one lock, no
\* two processes are generating at once, and when two or more processes had
\* calls pending at once for a name whose file was missing and all calls
\* have ended, exactly one generation of the file has completed.
C2_ExactlyOneGenerates ==
  /\ C2_LockDiscipline
  /\ \A n \in ClassNames :
       (missCalls[n] >= 2 /\ AllCallsEnded(n)) => successes[n] = 1

\* C2 amended: as above, except that at most one generation completes, and
\* exactly one unless every one of those calls began a generation and
\* raised (each then unlinked the file), in which case none has.
C2_AtMostOneGenerates ==
  /\ C2_LockDiscipline
  /\ \A n \in ClassNames :
       /\ successes[n] <= 1
       /\ generatedBy[n] = -1 => attempts[n] = 0
       /\ (missCalls[n] >= 2 /\ AllCallsEnded(n)) =>
            \/ successes[n] = 1
            \/ successes[n] = 0 /\ attempts[n] >= missCalls[n]
                 /\ \A p \in CallersOf(n) : outcome[p] = "GenerateError"

\* two processes called for a missing file, both calls have ended, one
\* generated the file and the other found it
C2_Witness ==
  \E p, q \in Procs :
    /\ p # q /\ arg[p] # "none" /\ arg[q] # "none" /\ OutName(p) = OutName(q)
    /\ pc[p] = "done" /\ pc[q] = "done"
    /\ missCalls[OutName(p)] >= 2
    /\ generatedBy[OutName(p)] = p /\ foundAbsent[p]
    /\ ~foundAbsent[q] /\ successes[OutName(p)] = 1

\* C3: a call that got past the generation returns a class named
\* <cls.__name__>_pythonized whose base is the class it was given.
C3_SubclassOfArgument ==
  \A p \in Procs :
    (pc[p] = "done" /\ outcome[p] # "GenerateError") =>
      /\ outcome[p] = "returned"
      /\ result[p].name = SubclassName(ClassName(arg[p]))
      /\ result[p].base = arg[p]

HasUpper(name) == \E i \in 1..Len(name) : IsUpperChar(name[i])

\* hasattr(cls, name) for a loaded class: its own attributes and its base's
ResultHasAttr(r, name) ==
  \/ \E i \in 1..Len(r.dict) : r.dict[i].name = name
  \/ HasAttrName(r.base, name)

\* the name resolves to the base's own entry: no alias hides it
ResolvesToBase(r, name) ==
  /\ HasAttrName(r.base, name)
  /\ \A i \in 1..Len(r.dict) : r.dict[i].name # name

\* C4: a call that got past the generation returns a class that has, for
\* every method of the class it was given whose name has an upper-case
\* letter and no leading underscore, an attribute named by the snake_case
\* form; and a method that exists in both cases is still reached under its
\* lower-case name.
C4_SnakeAliasForEveryMethod ==
  \A p \in Procs :
    (pc[p] = "done" /\ outcome[p] # "GenerateError") =>
      /\ outcome[p] = "returned"
      /\ \A i \in 1..Len(ClassAttrs(arg[p])) :
           LET m == ClassAttrs(arg[p])[i]
           IN /\ (IsMethod(m) /\ HasUpper(m.name) /\ m.name[1] # "_") =>
                   ResultHasAttr(result[p], camel_to_snake(m.name))
              /\ (IsMethod(m) /\ HasUpper(m.name)
                    /\ HasAttrName(arg[p], StrLower(m.name))) =>
                   ResolvesToBase(result[p], StrLower(m.name))

C6_WarnAndReturnNone ==
  (dcall.decorator = "requires_ROOT" /\ dcall.exception = "False") =>
    IF rootVersion < dcall.version
    THEN /\ dout.bodyCalls = 0
         /\ dout.warned
         /\ dout.status = "returned"
         /\ dout.value = PyNone
    ELSE /\ dout.bodyCalls = 1
         /\ dout.bodyArg = dcall.a
         /\ ~dout.warned
         /\ dout.status = "returned"
         /\ dout.value = BodyValue(dcall.a)

\* a call refused with a warning, and the case ROOT_VERSION = version
C6_Witness ==
  /\ dcall.decorator = "requires_ROOT" /\ dcall.exception = "False"
  /\ rootVersion < dcall.version
  /\ dout.warned /\ dout.bodyCalls = 0

\* the values of `exception` that are exception classes
ExceptionClasses == { "ValueError" }

C8_BodyOnlyInWritableFile ==
  dcall.decorator = "method_file_check" =>
    IF dcall.dirAtCall = "TROOT"
    THEN dout.status = "raised" /\ dout.value = Exc("RuntimeError")
                                /\ dout.bodyCalls = 0
    ELSE IF fileMode[dcall.dirAtCall] # "rw"
         THEN dout.status = "raised" /\ dout.value = Exc("RuntimeError")
                                     /\ dout.bodyCalls = 0
         ELSE /\ dout.status = "returned"
              /\ dout.value = BodyValue(dcall.a)
              /\ dout.bodyCalls = 1
              /\ dout.bodyDir = dcall.dirAtCall

\* a call refused inside a file opened read-only
C8_Witness ==
  /\ dcall.decorator = "method_file_check"
  /\ dcall.dirAtCall # "TROOT"
  /\ fileMode[dcall.dirAtCall] = "ro"
  /\ dout.status = "raised" /\ dout.bodyCalls = 0

C9_Step ==
  /\ (dpc = "idle" /\ dpc' = "body") =>
       /\ objDir # "none"
       /\ curDir' = objDir
       /\ dout'.bodyDir = objDir
  /\ (dpc' = "body" /\ ~bodyMoved') => curDir' = objDir'
  /\ (dpc = "body" /\ dpc' = "idle") =>
       /\ curDir' = dcall.dirAtCall
       /\ dout'.status \in { "returned", "raised" }
  /\ (dpc = "idle" /\ dpc' = "idle" /\ dcall'.decorator = "method_file_cd"
        /\ << dcall', dout' >> # << dcall, dout >>) =>
       curDir' = curDir

RECURSIVE EntriesPerMember(_, _, _, _)
EntriesPerMember(things, i, label, style) ==
  IF i > Len(things) THEN << >>
  ELSE (IF InLegend(things[i])
        THEN << Entry(things[i],
                      IF label = "None" THEN GetTitle(things[i]) ELSE label,
                      IF style = "None" THEN LegendStyle(things[i]) ELSE style) >>
        ELSE << >>)
       \o EntriesPerMember(things, i + 1, label, style)

\* C10: the entries the last AddEntry call added are, in order, one for the
\* thing itself or for each member of the stack whose inlegend is not
\* False, each with its own title as label when label is None and its own
\* legendstyle (or 'P') as style when style is None.
C10_EachMemberOwnLabel ==
  legendCalls > 0 =>
    SubSeq(legendEntries, lastAdd.before + 1, Len(legendEntries))
      = EntriesPerMember(lastAdd.thing.hists, 1, lastAdd.label, lastAdd.style)


(***************************************************************************)
(* Claim about tree2hdf5 (checked under TreeSpec)                          *)
(***************************************************************************)
\* what a call with entries <= 0 leaves for the same tree, selection and
\* group, and how it ends
WholeTreeOutcome(tree, sel) ==
  LET made == WholeTree(tree, sel)
  IN [dset |-> made.dset,
      out |-> IF made.error = "none" THEN "converted" ELSE made.error]

\* the chunked branch on its own: the dataset holds every entry that passes
\* the selection, in tree order, without the object columns
ChunkedReadsEveryRow ==
  (tpc = "done" /\ tentries > 0 /\ tout # "exists") =>
    /\ tout = "converted"
    /\ tdset = Dataset({ "x" }, drop_object_col(tree2array_all(ttree, tsel)).rows)

\* C11: a call with entries = n > 0 that has ended (the group held no
\* dataset of the tree's name) ends the way, and leaves the dataset, that a
\* call with entries <= 0 does for the same tree and selection: the same
\* rows in the same order, for every number of entries.
C11_ChunkedEqualsWhole ==
  (tpc = "done" /\ tentries > 0 /\ tout # "exists") =>
    /\ tout = WholeTreeOutcome(ttree, tsel).out
    /\ tdset = WholeTreeOutcome(ttree, tsel).dset


(***************************************************************************)
(* Claims about root2hdf5 (checked under ConvertSpec)                      *)
(***************************************************************************)
\* the trees of the directories from d on, each directory's in ascending
\* name order
RECURSIVE TreesFound(_)
TreesFound(d) ==
  IF d > Len(DirPaths) THEN << >>
  ELSE LET names == SortedTreeNames(rfile[d])
       IN [i \in 1..Len(names) |-> << DirPaths[d], names[i] >>]
          \o TreesFound(d + 1)

\* for each tree found, in that order, the trees to convert in its place
RECURSIVE ToConvert(_, _)
ToConvert(found, i) ==
  IF i > Len(found) THEN << >>
  ELSE LET given == CallUserFunc(userfunc, GetTree(found[i][2]))
       IN [j \in 1..Len(given) |-> [dir |-> found[i][1], tree |-> given[j]]]
          \o ToConvert(found, i + 1)

Converted == [i \in 1..Len(conversions) |->
                [dir |-> conversions[i].dir, tree |-> conversions[i].tree]]

\* the conversions that raised, as log.error reports them
RECURSIVE RaisedFrom(_)
RaisedFrom(i) ==
  IF i > Len(conversions) THEN << >>
  ELSE (IF Raises(conversions[i].out)
        THEN << << conversions[i].dir, conversions[i].tree.name,
                   conversions[i].tree.id >> >>
        ELSE << >>)
       \o RaisedFrom(i + 1)

DatasetOf(tree) == Dataset({ "x" }, [i \in 1..Len(tree.rows) |-> [f \in { "x" } |-> tree.rows[i]]])

\* C13: a call with a user function, on a file whose trees can all be read,
\* ends by returning; the user function has been called once on every tree
\* found, directory by directory and in ascending name order within each;
\* every tree it returned has been converted, into the dataset of its name
\* in the group of the directory; and the groups created are those of the
\* directories that have trees.
C13_UserFuncTreesConverted ==
  (userfunc # "None" /\ unreadable = {} /\ rpc \in { "done", "raised", "crashed" }) =>
    /\ rpc = "done"
    /\ userCalls = TreesFound(1)
    /\ Converted = ToConvert(TreesFound(1), 1)
    /\ \A i \in 1..Len(conversions) :
         /\ conversions[i].out = "converted"
         /\ datasets[conversions[i].dir, conversions[i].tree.name]
              = DatasetOf(conversions[i].tree)
    /\ groups = { DirPaths[d] : d \in { e \in 1..Len(DirPaths) : rfile[e] # << >> } } \ { "" }



(***************************************************************************)
(* Claims about the command line (checked under MainSpec)                  *)
(***************************************************************************)
\* the loop is at an input whose output exists, and neither flag is given
OutputRefused ==
  /\ mpc = "check"
  /\ fileIdx <= Len(args_files)
  /\ OutputName(args_files[fileIdx]) \in present
  /\ ~args_force
  /\ ~args_update

\* the program exits with the error and leaves the output files alone
ExitsBeforeOpening ==
  OutputRefused =>
    /\ mpc' = "exited"
    /\ exitMsg' = "Output already exists"
    /\ UNCHANGED << present, holds, opened, fileIdx >>
    /\ \A i \in 1..Len(opened) : opened[i][1] < fileIdx

\* a call of h5py.File that returns was for the output of the input the loop
\* is at; overwrite mode empties the file, append mode keeps what it holds
OpensOutputOfInput ==
  opened' # opened =>
    LET e == opened'[Len(opened')]
    IN  /\ opened' = Append(opened, e)
        /\ e[1] = fileIdx
        /\ e[2] = OutputName(args_files[fileIdx])
        /\ e[3] \in { "w", "a" }
        /\ e[3] = "w" => holds'[e[2]] = {}
        /\ e[3] = "a" => holds'[e[2]] = holds[e[2]]

\* the mode of the call of h5py.File that has just returned
ModeOpened == opened'[Len(opened')][3]

=============================================================================
